---- MODULE Spec2Model ----
(***************************************************************************)
(* Streaming neural denoiser (Source/DSP/OnnxDenoiser.{h,cpp}, the build   *)
(* with ENABLE_ONNX_RUNTIME): backend fallback, session lifecycle, the     *)
(* per-channel ring buffers and the processBlock pipeline.                 *)
(*                                                                         *)
(* Samples are integers (all samples are even, so that the dry/wet blend   *)
(* with a mix of 1/2 is exact).  The mix is a rational mixN/MixDen.        *)
(* The model frame (480 samples in the source) and the buffer capacity (32 *)
(* frames in the source) are scaled down to modelFrameSize and FifoFrames. *)
(***************************************************************************)
EXTENDS Integers, Sequences, FiniteSets, TLC

\* ---------------------------------------------------------------- bounds
\* Largest capacity the lone RingBuffer is resized to.
RingCap == 3
\* Most samples the lone RingBuffer is given between two resize/clear calls.
MaxStream == 6
\* OnnxDenoiser.h:103 has 480; scaled down for model checking.
modelFrameSize == 2
\* OnnxDenoiser.cpp:175 has 32 frames of capacity; scaled down.
FifoFrames == 2
\* Largest host block (numSamples) the driver delivers.
MaxBlock == 3
\* Largest channel count the driver configures.
MaxChannels == 2
\* Period of the host's test waveform (distinct even sample values).
WavePeriod == 3
\* Denominator of the mix values the driver passes (mix = mixN / MixDen).
MixDen == 2
MaxRank == 4
MaxDim == 2
MaxShapeFrame == 3

\* ------------------------------------------------------- program constants
modelSampleRate == 48000

Min(a, b) == IF a < b THEN a ELSE b
Max(a, b) == IF a > b THEN a ELSE b
\* ceil(a / b) for a >= 0, b > 0
CeilDiv(a, b) == (a + b - 1) \div b

\* enum class Provider
Providers == {"autoSelect", "cpu", "dml", "qnn", "cuda", "rocm", "coreml"}

\* ------------------------------------------------------------ RingBuffer
\* A read of data[k] (0-based k) from an array of Len(data) valid elements;
\* a read past the end yields an arbitrary value g.
DataAt(data, k, g) == IF k + 1 <= Len(data) THEN data[k + 1] ELSE g

\* RingBuffer::resize
RB_resize(newCapacity) ==
    LET cap == Max(newCapacity, 1)
    IN  [buffer |-> [i \in 1..cap |-> 0], capacity |-> cap,
         readIndex |-> 0, writeIndex |-> 0, availableSamples |-> 0]

\* RingBuffer::clear
RB_clear(rb) ==
    [rb EXCEPT !.readIndex = 0, !.writeIndex = 0, !.availableSamples = 0,
               !.buffer = [i \in 1..rb.capacity |-> 0]]

\* The copy loop of RingBuffer::push: one memcpy per iteration.
RECURSIVE RB_pushLoop(_, _, _, _, _)
RB_pushLoop(rb, data, count, remaining, g) ==
    IF remaining > 0
    THEN LET space  == rb.capacity - rb.writeIndex
             toCopy == Min(space, remaining)
             buf    == [i \in 1..rb.capacity |->
                          IF i - 1 >= rb.writeIndex /\ i - 1 < rb.writeIndex + toCopy
                          THEN DataAt(data, (count - remaining) + (i - 1 - rb.writeIndex), g)
                          ELSE rb.buffer[i]]
         IN  RB_pushLoop([rb EXCEPT !.buffer = buf,
                                    !.writeIndex = (rb.writeIndex + toCopy) % rb.capacity],
                         data, count, remaining - toCopy, g)
    ELSE rb

\* (availableSamples not limited to the capacity)
RB_pushUnclamped(rb, data, count0, g) ==
    IF count0 <= 0 THEN rb
    ELSE LET count == IF count0 > rb.capacity THEN rb.capacity ELSE count0
             r1    == RB_pushLoop(rb, data, count, count, g)
             avail == r1.availableSamples + count
         IN  [r1 EXCEPT !.availableSamples = avail,
                        !.readIndex = IF avail = r1.capacity THEN r1.writeIndex
                                      ELSE r1.readIndex]

\* RingBuffer::push (data, count); g is what a read past data's end yields.
RB_push(rb, data, count0, g) ==
    IF count0 <= 0 THEN rb
    ELSE LET count == IF count0 > rb.capacity THEN rb.capacity ELSE count0
             r1    == RB_pushLoop(rb, data, count, count, g)
             avail == Min(r1.capacity, r1.availableSamples + count)
         IN  [r1 EXCEPT !.availableSamples = avail,
                        !.readIndex = IF avail = r1.capacity THEN r1.writeIndex
                                      ELSE r1.readIndex]

\* (a single copy up to the end of the storage, no second copy after the wrap)
RB_popLoopOneCopy(rb, dest, toRead, remaining) ==
    IF remaining > 0
    THEN LET space  == rb.capacity - rb.readIndex
             toCopy == Min(space, remaining)
             off    == toRead - remaining
             d2     == [i \in 1..Len(dest) |->
                          IF i - 1 >= off /\ i - 1 < off + toCopy
                          THEN rb.buffer[rb.readIndex + (i - 1 - off) + 1]
                          ELSE dest[i]]
         IN  [rb |-> [rb EXCEPT !.readIndex = (rb.readIndex + toCopy) % rb.capacity],
              dest |-> d2]
    ELSE [rb |-> rb, dest |-> dest]

\* The copy loop of RingBuffer::pop.
RECURSIVE RB_popLoop(_, _, _, _)
RB_popLoop(rb, dest, toRead, remaining) ==
    IF remaining > 0
    THEN LET space  == rb.capacity - rb.readIndex
             toCopy == Min(space, remaining)
             off    == toRead - remaining
             d2     == [i \in 1..Len(dest) |->
                          IF i - 1 >= off /\ i - 1 < off + toCopy
                          THEN rb.buffer[rb.readIndex + (i - 1 - off) + 1]
                          ELSE dest[i]]
         IN  RB_popLoop([rb EXCEPT !.readIndex = (rb.readIndex + toCopy) % rb.capacity],
                        d2, toRead, remaining - toCopy)
    ELSE [rb |-> rb, dest |-> dest]

\* (without the zero fill)
RB_popNoFill(rb, dest, count, fillWithZeros) ==
    IF count <= 0 THEN [rb |-> rb, dest |-> dest, ret |-> 0]
    ELSE LET toRead == Min(count, rb.availableSamples)
             r      == RB_popLoop(rb, dest, toRead, toRead)
         IN  [rb |-> [r.rb EXCEPT !.availableSamples = rb.availableSamples - toRead],
              dest |-> r.dest, ret |-> toRead]

\* RingBuffer::pop (dest, count, fillWithZeros): the buffer afterwards, the
\* destination array afterwards and the returned count.  dest has at least
\* count elements at every call site.
RB_pop(rb, dest, count, fillWithZeros) ==
    IF count <= 0 THEN [rb |-> rb, dest |-> dest, ret |-> 0]
    ELSE LET toRead == Min(count, rb.availableSamples)
             r      == RB_popLoop(rb, dest, toRead, toRead)
             rb2    == [r.rb EXCEPT !.availableSamples = rb.availableSamples - toRead]
             d2     == IF fillWithZeros /\ toRead < count
                       THEN [i \in 1..Len(r.dest) |->
                               IF i - 1 >= toRead /\ i - 1 < count THEN 0 ELSE r.dest[i]]
                       ELSE r.dest
         IN  [rb |-> rb2, dest |-> d2, ret |-> toRead]

\* std::vector::resize (n) on a vector of floats: keeps the prefix, new
\* elements are value-initialised.
VecResize(v, n) == [i \in 1..n |-> IF i <= Len(v) THEN v[i] ELSE 0]

\* ------------------------------------------------------------ Rate Bridge
\* juce::LagrangeInterpolator as processChannel uses it.  The phase
\* (subSamplePos) is kept exactly, in ticks of 1/one, so that a speed ratio
\* of step/one needs no floating point; the interpolated value is abstracted
\* to the most recent input sample.  A read past the end of the input array
\* yields g.
InterpReset(one) == [pos |-> one, last |-> 0]

\* while (pos >= 1.0) { pushInterpolationSample (input[numUsed++]); pos -= 1.0; }
RECURSIVE InterpAdvance(_, _, _, _, _)
InterpAdvance(st, used, input, one, g) ==
    IF st.pos >= one
    THEN InterpAdvance([pos |-> st.pos - one, last |-> DataAt(input, used, g)],
                       used + 1, input, one, g)
    ELSE [st |-> st, used |-> used]

\* The output loop: numOut samples are produced, the count of input samples
\* consumed is returned.
RECURSIVE InterpLoop(_, _, _, _, _, _, _, _)
InterpLoop(st, used, out, input, step, one, numOut, g) ==
    IF numOut > 0
    THEN LET a == InterpAdvance(st, used, input, one, g)
         IN  InterpLoop([a.st EXCEPT !.pos = a.st.pos + step], a.used,
                        Append(out, a.st.last), input, step, one, numOut - 1, g)
    ELSE [st |-> st, out |-> out, used |-> used]

\* process (step/one, input, output, numOut)
InterpProcess(st, step, one, input, numOut, g) ==
    InterpLoop(st, 0, <<>>, input, step, one, numOut, g)

\* ------------------------------------------------------ Backend Registry
\* The build: which optional execution providers are compiled in
\* (ONNX_RUNTIME_USE_DML && JUCE_WINDOWS, _CUDA, _ROCM, _COREML).
BuildFlags == {"dml", "cuda", "rocm", "coreml"}

\* isProviderUsable in a build with the flags b
isProviderUsable(provider, b) ==
    IF provider = "cpu" THEN TRUE
    ELSE IF provider = "dml" THEN "dml" \in b
    ELSE IF provider = "qnn" THEN TRUE
    ELSE IF provider = "cuda" THEN "cuda" \in b
    ELSE IF provider = "rocm" THEN "rocm" \in b
    ELSE IF provider = "coreml" THEN "coreml" \in b
    ELSE FALSE

SeqContains(s, x) == \E i \in 1..Len(s) : s[i] = x

\* the appendUnique lambda of getProviderFallbackOrder
appendAlways(order, provider) == Append(order, provider)
appendUnique(order, provider) ==
    IF SeqContains(order, provider) THEN order ELSE Append(order, provider)

\* The fixed priority list of the autoSelect branch.
AutoOrderCpuFirst == <<"cpu", "qnn", "dml", "cuda", "rocm", "coreml">>
AutoOrder == <<"qnn", "dml", "cuda", "rocm", "coreml", "cpu">>

\* (the fallback flag ignored)
orderIgnoringAllowFallback(preferred, allow) ==
    IF preferred = "autoSelect" THEN AutoOrder
    ELSE appendUnique(appendUnique(appendUnique(appendUnique(appendUnique(appendUnique(
             appendUnique(<<>>, preferred), "qnn"), "dml"), "cuda"), "rocm"), "coreml"), "cpu")

\* getProviderFallbackOrder
getProviderFallbackOrder(preferred, allow) ==
    IF ~allow /\ preferred # "autoSelect" THEN <<preferred>>
    ELSE IF preferred = "autoSelect" THEN AutoOrder
    ELSE LET o0 == appendUnique(<<>>, preferred)
         IN  IF allow
             THEN appendUnique(appendUnique(appendUnique(appendUnique(appendUnique(
                      appendUnique(o0, "qnn"), "dml"), "cuda"), "rocm"), "coreml"), "cpu")
             ELSE o0

\* ------------------------------------------------- files and the session
\* A juce::File is a pair <<directory, name>>; juce::File() is NoFile.
NoFile == <<"", "">>

\* std::unique_ptr<Ort::Session>: null, or a session built from a model file
\* with one execution provider appended to its options.
NullSession == [live |-> FALSE, file |-> NoFile, provider |-> "autoSelect"]

\* the addByProvider lambda of getModelCandidates
addByProvider(filenamePriority, provider) ==
    IF provider = "dml" THEN appendUnique(filenamePriority, "rnnoise_48k_olive_dml.onnx")
    ELSE IF provider = "qnn" THEN appendUnique(filenamePriority, "rnnoise_48k_olive_qnn.onnx")
    ELSE IF provider = "cuda" THEN appendUnique(filenamePriority, "rnnoise_48k_olive_cuda.onnx")
    ELSE IF provider = "rocm" THEN appendUnique(filenamePriority, "rnnoise_48k_olive_rocm.onnx")
    ELSE IF provider = "coreml" THEN appendUnique(filenamePriority, "rnnoise_48k_olive_coreml.onnx")
    ELSE filenamePriority

\* The file names of getModelCandidates, in priority order.
filenamePriority(preferred) ==
    LET byProvider ==
          IF preferred = "autoSelect"
          THEN addByProvider(addByProvider(addByProvider(addByProvider(
                   addByProvider(<<>>, "qnn"), "dml"), "cuda"), "rocm"), "coreml")
          ELSE addByProvider(<<>>, preferred)
    IN  appendUnique(appendUnique(byProvider, "rnnoise_48k_olive_cpu.onnx"),
                     "rnnoise_48k.onnx")

\* getModelCandidates: for each search directory, each file name.
RECURSIVE getModelCandidates(_, _)
getModelCandidates(searchDirs, preferred) ==
    IF searchDirs = <<>> THEN <<>>
    ELSE LET names == filenamePriority(preferred)
         IN  [i \in 1..Len(names) |-> <<Head(searchDirs), names[i]>>]
             \o getModelCandidates(Tail(searchDirs), preferred)

\* The machine the program runs on, e:
\*   e.build       the compiled-in optional providers
\*   e.searchDirs  the directories getModelCandidates searches
\*   e.existing    the files for which existsAsFile() holds
\*   e.creatable   the pairs <<file, provider>> for which appending the
\*                 provider and constructing and querying the Ort::Session
\*                 succeed (no error status, no exception)
\* tryCreateSessionForProvider on the fields d = [session, activeProvider,
\* modelPath]: the fields afterwards and the returned flag.
tryCreateSessionForProvider(d, file, provider, e) ==
    IF file \notin e.existing THEN [ok |-> FALSE, d |-> d]
    ELSE LET d1 == [d EXCEPT !.session = NullSession]
             providerReady ==
                 IF provider \in BuildFlags
                 THEN provider \in e.build
                      /\ (provider = "dml" => <<file, provider>> \in e.creatable)
                 ELSE IF provider = "qnn" THEN <<file, provider>> \in e.creatable
                 ELSE TRUE
         IN  IF ~providerReady THEN [ok |-> FALSE, d |-> d1]
             ELSE IF <<file, provider>> \in e.creatable
             THEN [ok |-> TRUE,
                   d  |-> [d1 EXCEPT !.session = [live |-> TRUE, file |-> file,
                                                  provider |-> provider],
                                     !.activeProvider = provider]]
             ELSE [ok |-> FALSE, d |-> d1]

\* (a loop that does not stop at the first session)
RECURSIVE TryProvidersNoReturn(_, _, _, _, _, _)
TryProvidersNoReturn(d, file, providers, i, e, log) ==
    IF i > Len(providers) THEN [ok |-> d.session.live, d |-> d, log |-> log]
    ELSE IF ~isProviderUsable(providers[i], e.build)
    THEN TryProvidersNoReturn(d, file, providers, i + 1, e, log)
    ELSE LET r == tryCreateSessionForProvider(d, file, providers[i], e)
         IN  TryProvidersNoReturn(IF r.ok THEN r.d ELSE d, file, providers, i + 1, e,
                                  Append(log, [file |-> file, provider |-> providers[i],
                                               ok |-> r.ok]))

RECURSIVE TryProviders(_, _, _, _, _, _)
\* (a loop that gives up at the first provider that fails)
TryProvidersAbort(d, file, providers, i, e, log) ==
    IF i > Len(providers) THEN [ok |-> FALSE, d |-> d, log |-> log]
    ELSE IF ~isProviderUsable(providers[i], e.build)
    THEN TryProviders(d, file, providers, i + 1, e, log)
    ELSE LET r    == tryCreateSessionForProvider(d, file, providers[i], e)
             log2 == Append(log, [file |-> file, provider |-> providers[i], ok |-> r.ok])
         IN  [ok |-> r.ok, d |-> r.d, log |-> log2]

\* The inner loop of loadDefaultModelIfNeeded over the fallback order, from
\* position i on, for one model file.  log collects the attempts made.
TryProviders(d, file, providers, i, e, log) ==
    IF i > Len(providers) THEN [ok |-> FALSE, d |-> d, log |-> log]
    ELSE IF ~isProviderUsable(providers[i], e.build)
    THEN TryProviders(d, file, providers, i + 1, e, log)
    ELSE LET r    == tryCreateSessionForProvider(d, file, providers[i], e)
             log2 == Append(log, [file |-> file, provider |-> providers[i], ok |-> r.ok])
         IN  IF r.ok THEN [ok |-> TRUE, d |-> r.d, log |-> log2]
             ELSE TryProviders(r.d, file, providers, i + 1, e, log2)

\* The loop of loadDefaultModelIfNeeded over the candidate files.
RECURSIVE TryCandidates(_, _, _, _, _, _)
TryCandidates(d, candidates, j, providers, e, log) ==
    IF j > Len(candidates) THEN [ok |-> FALSE, d |-> d, log |-> log]
    ELSE IF candidates[j] \notin e.existing
    THEN TryCandidates(d, candidates, j + 1, providers, e, log)
    ELSE LET r == TryProviders(d, candidates[j], providers, 1, e, log)
         IN  IF r.ok
             THEN [ok |-> TRUE, d |-> [r.d EXCEPT !.modelPath = candidates[j]], log |-> r.log]
             ELSE TryCandidates(r.d, candidates, j + 1, providers, e, r.log)

\* The body of loadDefaultModelIfNeeded after the check of the session.
loadModels(d, preferred, allow, e) ==
    LET providers == getProviderFallbackOrder(preferred, allow)
        r1 == IF d.modelPath \in e.existing
              THEN TryProviders(d, d.modelPath, providers, 1, e, <<>>)
              ELSE [ok |-> FALSE, d |-> d, log |-> <<>>]
    IN  IF r1.ok THEN r1
        ELSE TryCandidates(r1.d, getModelCandidates(e.searchDirs, preferred), 1,
                           providers, e, r1.log)

\* (without the early return on a live session)
loadAlways(d, preferred, allow, e) == loadModels(d, preferred, allow, e)

\* loadDefaultModelIfNeeded with the preference (preferred, allow).
loadDefaultModelIfNeeded(d, preferred, allow, e) ==
    IF d.session.live THEN [ok |-> TRUE, d |-> d, log |-> <<>>]
    ELSE loadModels(d, preferred, allow, e)

\* ------------------------------------------------------- Channel Pipeline
\* A default-constructed ChannelState (RingBuffer members at their
\* initialisers, empty vectors).
NewRingBuffer == [buffer |-> <<>>, capacity |-> 0, readIndex |-> 0,
                  writeIndex |-> 0, availableSamples |-> 0]

NewChannelState ==
    [resamplerIn |-> InterpReset(modelSampleRate), resamplerOut |-> InterpReset(modelSampleRate),
     inputFifo |-> NewRingBuffer, outputFifo |-> NewRingBuffer,
     tempIn |-> <<>>, tempOut |-> <<>>, frameIn |-> <<>>, frameOut |-> <<>>]

\* The loaded network is opaque: it maps a host sample to an even value above
\* the host's range, so that model output, passed-through input and zero
\* padding can be told apart.
ModelOutput(frame) == [i \in 1..Len(frame) |-> frame[i] + 2 * WavePeriod]

\* What Session::Run does for one frame: "throw" (an exception), "empty"
\* (no output tensor), "short" (an output tensor with fewer elements than the
\* frame) or "full".
OutputCount(outcome, frameSize) == IF outcome = "short" THEN frameSize - 1 ELSE frameSize

\* runModel (input, output, frameSize): the returned flag and the output array.
runModel(session, input, output, frameSize, outcome) ==
    IF ~session.live THEN [ok |-> FALSE, output |-> output]
    ELSE IF outcome = "throw" THEN [ok |-> FALSE, output |-> output]
    ELSE IF outcome = "empty" THEN [ok |-> FALSE, output |-> output]
    ELSE LET outputCount   == OutputCount(outcome, frameSize)
             samplesToCopy == Min(frameSize, outputCount)
             y             == ModelOutput(input)
         IN  [ok |-> TRUE,
              output |-> [i \in 1..Len(output) |->
                            IF i <= samplesToCopy THEN y[i]
                            ELSE IF i <= frameSize THEN 0 ELSE output[i]]]

\* The outcome of the k-th inference of one callback (k from 1), from the
\* pattern the environment chose for that callback.
OutcomeAt(outcomes, k) == outcomes[((k - 1) % Len(outcomes)) + 1]

\* The samples a ring buffer holds, oldest first.
RB_contents(rb) ==
    [i \in 1..rb.availableSamples |-> rb.buffer[((rb.readIndex + i - 1) % rb.capacity) + 1]]

\* Whether samples were pushed into the ring buffer since it was last sized
\* or cleared (every run of samples pushed holds a nonzero sample).
Started(rb) == \E i \in 1..Len(rb.buffer) : rb.buffer[i] # 0

\* The last n elements of a sequence (all of it when shorter).
LastN(s, n) == IF Len(s) <= n THEN s ELSE SubSeq(s, Len(s) - n + 1, Len(s))

\* Which array outputFifo.push is given after runModel returned ok.
PushedFrameAlwaysOut(ok, frameIn, frameOut) == frameOut
PushedFrame(ok, frameIn, frameOut) == IF ok THEN frameOut ELSE frameIn

\* One iteration of the frame loop after the pop p and runModel's result r:
\* the push into the output buffer, and the record of the frame (the popped
\* frame, runModel's result, by how much the output buffer grew and its
\* newest modelFrameSize samples right after the push).
FramePushed(state, p, r, of, outcome) ==
    [state |-> [state EXCEPT !.inputFifo = p.rb, !.frameIn = p.dest,
                             !.frameOut = r.output, !.outputFifo = of],
     entry |-> [frame |-> SubSeq(p.dest, 1, modelFrameSize), ok |-> r.ok,
                outcome |-> outcome,
                grew |-> of.availableSamples - state.outputFifo.availableSamples,
                tail |-> LastN(RB_contents(of), modelFrameSize)]]

FrameInferred(state, p, r, outcome, g) ==
    FramePushed(state, p, r,
                RB_push(state.outputFifo, PushedFrame(r.ok, p.dest, r.output),
                        modelFrameSize, g),
                outcome)

FramePopped(state, p, session, outcome, g) ==
    FrameInferred(state, p,
                  runModel(session, p.dest, state.frameOut, modelFrameSize, outcome),
                  outcome, g)

FrameStep(state, session, outcome, g) ==
    FramePopped(state, RB_pop(state.inputFifo, state.frameIn, modelFrameSize, FALSE),
                session, outcome, g)

\* while (inputFifo.available() >= modelFrameSize) { pop; runModel; push }
\* k counts the inferences already made in this callback; log collects the
\* records of the frames.
RECURSIVE FrameLoop(_, _, _, _, _, _)
\* (an `if` in place of the `while`: one frame per callback at most)
FrameLoopOnceNext(f, session, outcomes, k, log, g) ==
    [state |-> f.state, k |-> k + 1, log |-> Append(log, f.entry)]

FrameLoopNext(f, session, outcomes, k, log, g) ==
    FrameLoop(f.state, session, outcomes, k + 1, Append(log, f.entry), g)

\* (a loop that gives up at the first failed frame)
FrameLoopBreakNext(f, session, outcomes, k, log, g) ==
    IF f.entry.ok THEN FrameLoop(f.state, session, outcomes, k + 1, Append(log, f.entry), g)
    ELSE [state |-> f.state, k |-> k + 1, log |-> Append(log, f.entry)]

FrameLoopBreak(state, session, outcomes, k, log, g) ==
    IF state.inputFifo.availableSamples >= modelFrameSize
    THEN FrameLoopBreakNext(FrameStep(state, session, OutcomeAt(outcomes, k + 1), g),
                            session, outcomes, k, log, g)
    ELSE [state |-> state, k |-> k, log |-> log]

\* (a loop that also drains a partial frame)
FrameLoopPartial(state, session, outcomes, k, log, g) ==
    IF state.inputFifo.availableSamples >= 1
    THEN FrameLoopNext(FrameStep(state, session, OutcomeAt(outcomes, k + 1), g),
                       session, outcomes, k, log, g)
    ELSE [state |-> state, k |-> k, log |-> log]

FrameLoop(state, session, outcomes, k, log, g) ==
    IF state.inputFifo.availableSamples >= modelFrameSize
    THEN FrameLoopNext(FrameStep(state, session, OutcomeAt(outcomes, k + 1), g),
                       session, outcomes, k, log, g)
    ELSE [state |-> state, k |-> k, log |-> log]

\* The value the mix loop reads through the pointer `input` at index i:
\* processBlock passes the same array as input and as output, so once
\* resamplerOut has written the output the read sees the written value.
MixInputRead(input, output, aliased, i) == IF aliased THEN output[i] ELSE input[i]

\* The dry/wet loop of processChannel; mix = mixN / MixDen with 0 <= mixN.
ApplyMix(input, output, aliased, numSamples, mixN) ==
    IF mixN < MixDen
    THEN [i \in 1..Len(output) |->
            IF i <= numSamples
            THEN (MixInputRead(input, output, aliased, i) * (MixDen - mixN)
                  + output[i] * mixN) \div MixDen
            ELSE output[i]]
    ELSE output

\* processChannel, step 1: resamplerIn.process into tempIn (ri is its
\* result) and the push of the returned count into the input buffer.
ChannelPushed(state, tempIn2, ri, targetSamples, g) ==
    [state |-> [state EXCEPT !.tempIn = tempIn2, !.resamplerIn = ri.st,
                             !.inputFifo = RB_push(state.inputFifo, tempIn2, ri.used, g)],
     avail0 |-> state.inputFifo.availableSamples,
     pushed |-> ri.used, target |-> targetSamples]

ChannelResampledIn(state, tempIn1, ri, targetSamples, g) ==
    ChannelPushed(state,
                  [i \in 1..Len(tempIn1) |->
                     IF i <= targetSamples THEN ri.out[i] ELSE tempIn1[i]],
                  ri, targetSamples, g)

ChannelIn(state, input, targetSamples, host, g) ==
    ChannelResampledIn(state,
                       IF Len(state.tempIn) < targetSamples
                       THEN VecResize(state.tempIn, targetSamples) ELSE state.tempIn,
                       InterpProcess(state.resamplerIn, host, modelSampleRate, input,
                                     targetSamples, g),
                       targetSamples, g)

\* processChannel, step 3 and 4: the drain of the output buffer (po is the
\* pop's result), resamplerOut.process into the output array (ro is its
\* result) and the mix.  c is the result of step 1, fl of the frame loop.
ChannelOut(c, fl, po, ro, requiredModelSamples, input, aliased, numSamples, mixN) ==
    [state |-> [fl.state EXCEPT !.outputFifo = po.rb, !.tempOut = po.dest,
                                !.resamplerOut = ro.st],
     output |-> ApplyMix(input, ro.out, aliased, numSamples, mixN),
     wet |-> ro.out, k |-> fl.k, frames |-> fl.log,
     avail0 |-> c.avail0, pushed |-> c.pushed, target |-> c.target,
     popped |-> po.ret, required |-> requiredModelSamples]

ChannelDrained(c, fl, po, requiredModelSamples, input, aliased, numSamples, mixN, host, g) ==
    ChannelOut(c, fl, po,
               InterpProcess(fl.state.resamplerOut, modelSampleRate, host, po.dest,
                             numSamples, g),
               requiredModelSamples, input, aliased, numSamples, mixN)

\* (a drain that takes nothing unless the whole request is buffered)
ChannelFramedAllOrNothing(c, fl, requiredModelSamples, input, aliased, numSamples, mixN, host, g) ==
    ChannelDrained(c, fl,
                   RB_pop(fl.state.outputFifo,
                          IF Len(fl.state.tempOut) < requiredModelSamples
                          THEN VecResize(fl.state.tempOut, requiredModelSamples)
                          ELSE fl.state.tempOut,
                          IF fl.state.outputFifo.availableSamples < requiredModelSamples
                          THEN 0 ELSE requiredModelSamples,
                          TRUE),
                   requiredModelSamples, input, aliased, numSamples, mixN, host, g)

ChannelFramed(c, fl, requiredModelSamples, input, aliased, numSamples, mixN, host, g) ==
    ChannelDrained(c, fl,
                   RB_pop(fl.state.outputFifo,
                          IF Len(fl.state.tempOut) < requiredModelSamples
                          THEN VecResize(fl.state.tempOut, requiredModelSamples)
                          ELSE fl.state.tempOut,
                          requiredModelSamples, TRUE),
                   requiredModelSamples, input, aliased, numSamples, mixN, host, g)

ChannelFrames(c, input, aliased, numSamples, mixN, host, session, outcomes, k0, g) ==
    ChannelFramed(c, FrameLoop(c.state, session, outcomes, k0, <<>>, g),
                  CeilDiv(modelSampleRate * numSamples, host),
                  input, aliased, numSamples, mixN, host, g)

\* processChannel (state, input, output, numSamples, mix) at host rate
\* `host`; `aliased` says that input and output are the same array.  The
\* result: the channel state, the output array, the output of resamplerOut
\* before the mix (wet), the inference count, the frame records and the
\* counts pushed and popped.
processChannel(state, input, aliased, numSamples, mixN, host, session, outcomes, k0, g) ==
    ChannelFrames(ChannelIn(state, input, CeilDiv(numSamples * modelSampleRate, host),
                            host, g),
                  input, aliased, numSamples, mixN, host, session, outcomes, k0, g)

\* ---------------------------------------------------------------- state
VARIABLES
    env,                \* the machine: [build, searchDirs, existing, creatable]
    drv,                \* the host driving the object: the argument sets it draws from
    enabled, session, activeProvider, preferredProvider, allowFallback, modelPath,
    hostSampleRate, numChannels, maxBlock,
    channels,           \* std::vector<ChannelState>
    inferFailed,        \* history: a frame's inference failed on the live session
    obs,                \* history: what the last call was given and what it did
    ring,               \* a RingBuffer driven on its own
    ringObs,            \* history: the samples it was given and gave back
    names,              \* the build and the last conversion of a backend name
    shapes,             \* a model's input shape, a frame length and the shape resolved
    race                \* the audio thread and the message thread on one session

vars == <<env, drv, enabled, session, activeProvider, preferredProvider, allowFallback,
          modelPath, hostSampleRate, numChannels, maxBlock, channels, inferFailed, obs,
          ring, ringObs, names, shapes, race>>

\* What the operations of the denoiser leave alone.
harness == <<ring, ringObs, names, shapes, race>>

\* The denoiser's own state, which the operations on the lone RingBuffer
\* leave alone.
denoiser == <<env, drv, enabled, session, activeProvider, preferredProvider,
              allowFallback, modelPath, hostSampleRate, numChannels, maxBlock,
              channels, inferFailed, obs>>

NoObs == [op |-> "none", ready0 |-> FALSE, active0 |-> "cpu", failed0 |-> FALSE,
          loadOk |-> FALSE, probes |-> <<>>,
          mixN |-> 0, in |-> <<>>, out |-> <<>>, calls |-> <<>>, before |-> <<>>,
          outcomes |-> <<>>, garbage |-> 0]

\* The host's waveform: sample i (from 1) of channel ch in a block that
\* starts at phase ph; even and nonzero.
HostSample(ph, ch, i) == 2 * (((ph + i + ch) % WavePeriod) + 1)

HostBuffer(ph, numCh, numSamples) ==
    [ch \in 1..numCh |-> [i \in 1..numSamples |-> HostSample(ph, ch, i)]]

\* The object after construction (the member initialisers of OnnxDenoiser.h).
Constructed ==
    /\ enabled = FALSE
    /\ session = NullSession
    /\ activeProvider = "cpu"
    /\ preferredProvider = "autoSelect"
    /\ allowFallback = TRUE
    /\ modelPath = NoFile
    /\ hostSampleRate = 44100
    /\ numChannels = 2
    /\ maxBlock = 0
    /\ channels = <<>>
    /\ inferFailed = FALSE
    /\ obs = NoObs

LoadFields == [session |-> session, activeProvider |-> activeProvider, modelPath |-> modelPath]

\* ------------------------------------------------------------- operations
\* prepare (newSampleRate, newNumChannels, maxBlockSize)
PreparedChannel(old, host) ==
    [resamplerIn |-> InterpReset(modelSampleRate),
     resamplerOut |-> InterpReset(host),
     inputFifo |-> RB_resize(modelFrameSize * FifoFrames),
     outputFifo |-> RB_resize(modelFrameSize * FifoFrames),
     tempIn |-> <<>>, tempOut |-> <<>>,
     frameIn |-> VecResize(old.frameIn, modelFrameSize),
     frameOut |-> VecResize(old.frameOut, modelFrameSize)]

Prepare(newSampleRate, newNumChannels, maxBlockSize) ==
    LET r == loadDefaultModelIfNeeded(LoadFields, preferredProvider, allowFallback, env)
    IN  /\ hostSampleRate' = newSampleRate
        /\ numChannels' = newNumChannels
        /\ maxBlock' = maxBlockSize
        /\ channels' = [c \in 1..newNumChannels |->
                          PreparedChannel(IF c <= Len(channels) THEN channels[c]
                                          ELSE NewChannelState, newSampleRate)]
        /\ session' = r.d.session
        /\ activeProvider' = r.d.activeProvider
        /\ modelPath' = r.d.modelPath
        /\ inferFailed' = (inferFailed /\ session.live)
        /\ obs' = [NoObs EXCEPT !.op = "prepare", !.ready0 = session.live,
                                !.active0 = activeProvider, !.failed0 = inferFailed,
                                !.loadOk = r.ok, !.probes = r.log]
        /\ UNCHANGED <<harness, env, drv, enabled, preferredProvider, allowFallback>>

\* (the output buffer keeps its samples)
ResetChannelKeepOutput(c) ==
    [c EXCEPT !.resamplerIn = InterpReset(modelSampleRate),
              !.resamplerOut = InterpReset(hostSampleRate),
              !.inputFifo = RB_clear(c.inputFifo)]

\* reset()
ResetChannel(c) ==
    [c EXCEPT !.resamplerIn = InterpReset(modelSampleRate),
              !.resamplerOut = InterpReset(hostSampleRate),
              !.inputFifo = RB_clear(c.inputFifo),
              !.outputFifo = RB_clear(c.outputFifo)]

Reset ==
    /\ channels' = [c \in 1..Len(channels) |-> ResetChannel(channels[c])]
    /\ obs' = [NoObs EXCEPT !.op = "reset", !.before = channels]
    /\ UNCHANGED <<harness, env, drv, enabled, session, activeProvider, preferredProvider,
                   allowFallback, modelPath, hostSampleRate, numChannels, maxBlock,
                   inferFailed>>

\* The history record of a configuration call.
ConfigObs(name) == [NoObs EXCEPT !.op = name]

\* setEnabled (shouldEnable)
SetEnabled(shouldEnable) ==
    /\ enabled' = shouldEnable
    /\ obs' = ConfigObs("config")
    /\ UNCHANGED <<harness, env, drv, session, activeProvider, preferredProvider, allowFallback,
                   modelPath, hostSampleRate, numChannels, maxBlock, channels, inferFailed>>

\* setModelPath (file)
SetModelPath(file) ==
    /\ modelPath' = file
    /\ session' = NullSession
    /\ inferFailed' = FALSE
    /\ obs' = ConfigObs("config")
    /\ UNCHANGED <<harness, env, drv, enabled, activeProvider, preferredProvider, allowFallback,
                   hostSampleRate, numChannels, maxBlock, channels>>

\* clearModelPath()
ClearModelPath ==
    /\ modelPath' = NoFile
    /\ session' = NullSession
    /\ inferFailed' = FALSE
    /\ obs' = ConfigObs("config")
    /\ UNCHANGED <<harness, env, drv, enabled, activeProvider, preferredProvider, allowFallback,
                   hostSampleRate, numChannels, maxBlock, channels>>

\* setPreferredProvider (provider)
SetPreferredProvider(provider) ==
    /\ preferredProvider' = provider
    /\ session' = NullSession
    /\ inferFailed' = FALSE
    /\ obs' = ConfigObs("config")
    /\ UNCHANGED <<harness, env, drv, enabled, activeProvider, allowFallback, modelPath,
                   hostSampleRate, numChannels, maxBlock, channels>>

\* setAllowFallback (shouldAllow)
SetAllowFallback(shouldAllow) ==
    /\ allowFallback' = shouldAllow
    /\ obs' = ConfigObs("config")
    /\ UNCHANGED <<harness, env, drv, enabled, session, activeProvider, preferredProvider,
                   modelPath, hostSampleRate, numChannels, maxBlock, channels, inferFailed>>

\* loadDefaultModelIfNeeded(), called by the host
LoadDefaultModelIfNeeded ==
    LET r == loadDefaultModelIfNeeded(LoadFields, preferredProvider, allowFallback, env)
    IN  /\ session' = r.d.session
        /\ activeProvider' = r.d.activeProvider
        /\ modelPath' = r.d.modelPath
        /\ inferFailed' = (inferFailed /\ session.live)
        /\ obs' = [NoObs EXCEPT !.op = "load", !.ready0 = session.live,
                                !.active0 = activeProvider, !.failed0 = inferFailed,
                                !.loadOk = r.ok, !.probes = r.log]
        /\ UNCHANGED <<harness, env, drv, enabled, preferredProvider, allowFallback,
                       hostSampleRate, numChannels, maxBlock, channels>>

\* juce::jlimit (0.0f, 1.0f, mix)
ClampMix(mixN) == Max(0, Min(MixDen, mixN))

\* The channel loop of processBlock, from channel ch on: channels are
\* processed one after the other on the one session.  acc holds the channel
\* states, the buffer and the per-channel records so far.
RECURSIVE ProcessChannels(_, _, _, _, _, _, _, _, _, _)

\* (one ChannelState shared by all channels)
ChannelDoneShared(acc, r, ch, channelsToProcess, numSamples, mixN, host, sess, outcomes, g) ==
    ProcessChannels([channels |-> [c \in 1..Len(acc.channels) |-> r.state],
                     buffer |-> [acc.buffer EXCEPT ![ch] = r.output],
                     calls |-> Append(acc.calls,
                                      [wet |-> r.wet, frames |-> r.frames,
                                       avail0 |-> r.avail0,
                                       pushed |-> r.pushed, target |-> r.target,
                                       popped |-> r.popped, required |-> r.required])],
                    ch + 1, channelsToProcess, numSamples, mixN, host, sess, outcomes,
                    r.k, g)

ChannelDone(acc, r, ch, channelsToProcess, numSamples, mixN, host, sess, outcomes, g) ==
    ProcessChannels([channels |-> [acc.channels EXCEPT ![ch] = r.state],
                     buffer |-> [acc.buffer EXCEPT ![ch] = r.output],
                     calls |-> Append(acc.calls,
                                      [wet |-> r.wet, frames |-> r.frames,
                                       avail0 |-> r.avail0,
                                       pushed |-> r.pushed, target |-> r.target,
                                       popped |-> r.popped, required |-> r.required])],
                    ch + 1, channelsToProcess, numSamples, mixN, host, sess, outcomes,
                    r.k, g)

ProcessChannels(acc, ch, channelsToProcess, numSamples, mixN, host, sess, outcomes, k, g) ==
    IF ch > channelsToProcess THEN acc
    ELSE ChannelDone(acc,
                     processChannel(acc.channels[ch], acc.buffer[ch], TRUE, numSamples,
                                    mixN, host, sess, outcomes, k, g),
                     ch, channelsToProcess, numSamples, mixN, host, sess, outcomes, g)

\* Whether some frame of the per-channel records failed.
AnyFrameFailed(calls) ==
    \E c \in 1..Len(calls) : \E f \in 1..Len(calls[c].frames) : ~calls[c].frames[f].ok

\* The history record of a processBlock call.
BlockObs(buffer, mixN) ==
    [NoObs EXCEPT !.op = "processBlock", !.ready0 = session.live,
                  !.active0 = activeProvider, !.failed0 = inferFailed,
                  !.mixN = mixN, !.in = buffer, !.out = buffer]

\* processBlock after the channel loop, whose result is p.
BlockProcessed(buffer, mixN, outcomes, g, r, p) ==
    /\ channels' = p.channels
    /\ inferFailed' = ((inferFailed /\ session.live) \/ AnyFrameFailed(p.calls))
    /\ obs' = [BlockObs(buffer, mixN) EXCEPT !.loadOk = TRUE, !.probes = r.log,
                                             !.out = p.buffer, !.calls = p.calls,
                                             !.before = channels,
                                             !.outcomes = outcomes, !.garbage = g]

\* processBlock after loadDefaultModelIfNeeded, whose result is r.
BlockLoaded(buffer, numSamples, mixN, outcomes, g, r) ==
    /\ session' = r.d.session
    /\ activeProvider' = r.d.activeProvider
    /\ modelPath' = r.d.modelPath
    /\ UNCHANGED <<harness, env, drv, enabled, preferredProvider, allowFallback,
                   hostSampleRate, numChannels, maxBlock>>
    /\ IF ~r.ok
       THEN /\ obs' = [BlockObs(buffer, mixN) EXCEPT !.probes = r.log]
            /\ UNCHANGED <<channels, inferFailed>>
       ELSE BlockProcessed(buffer, mixN, outcomes, g, r,
                ProcessChannels([channels |-> channels, buffer |-> buffer, calls |-> <<>>],
                                1, Min(Len(buffer), Len(channels)), numSamples,
                                ClampMix(mixN), hostSampleRate, r.d.session, outcomes,
                                0, g))

\* if (mix <= 0.0f) return;
MixBypassStrict(mixN) == mixN < 0
MixBypass(mixN) == mixN <= 0

\* processBlock (buffer, mix) on a buffer of Len(buffer) channels of
\* numSamples samples; mix = mixN / MixDen.  The environment supplies the
\* outcomes of the inferences of this callback and g, the value of any read
\* outside an array.
ProcessBlock(buffer, numSamples, mixN, outcomes, g) ==
    IF ~enabled \/ MixBypass(mixN)
    THEN /\ obs' = BlockObs(buffer, mixN)
         /\ UNCHANGED <<harness, env, drv, enabled, session, activeProvider, preferredProvider,
                        allowFallback, modelPath, hostSampleRate, numChannels, maxBlock,
                        channels, inferFailed>>
    ELSE BlockLoaded(buffer, numSamples, mixN, outcomes, g,
                     loadDefaultModelIfNeeded(LoadFields, preferredProvider,
                                              allowFallback, env))

\* ------------------------------------------------------ the environment
UserFile == <<"user", "custom.onnx">>
MissingFile == <<"user", "missing.onnx">>
ExeDirs == <<"exe">>
CudaCandidate == <<"exe", "rnnoise_48k_olive_cuda.onnx">>
CpuCandidate == <<"exe", "rnnoise_48k_olive_cpu.onnx">>
BareCandidate == <<"exe", "rnnoise_48k.onnx">>
ModelFiles == {UserFile, CudaCandidate, CpuCandidate, BareCandidate}

\* Outcome patterns of the inferences of one callback.
Outcomes == {"full", "short", "empty", "throw"}

\* A machine with the CPU provider only, on which the user's model file loads.
CpuMachine ==
    [build |-> {}, searchDirs |-> ExeDirs, existing |-> {UserFile},
     creatable |-> {<<UserFile, "cpu">>}]

\* A host (driver) is the sets its calls draw their arguments from; an empty
\* set means that the host never makes that call.
\*   rates, chans      prepare (rate, channels, MaxBlock)
\*   bufs, blocks, phases, mixes   the buffer and the mix of processBlock
\*   patterns, garbage what the environment does during a processBlock
\*   enables, paths, clears, prefs, allows, loads, resets   the other calls
AudioPatterns ==
    {<<"full", "full">>, <<"throw", "full">>, <<"full", "empty">>, <<"short", "throw">>}

\* A host that reconfigures freely between blocks of every size and mix, on
\* one channel, with inference that always succeeds.
MixDriver ==
    [rates |-> {modelSampleRate}, chans |-> {1}, bufs |-> {1}, blocks |-> 1..MaxBlock,
     phases |-> {0}, mixes |-> 0..(MixDen + 1),
     patterns |-> {<<"full", "full">>}, garbage |-> {0},
     enables |-> BOOLEAN, paths |-> {UserFile}, clears |-> {TRUE},
     prefs |-> {"autoSelect"}, allows |-> {TRUE}, loads |-> {TRUE}, resets |-> {TRUE}]

\* A host that configures once and then streams short and long blocks on one
\* channel while inference fails in every pattern of AudioPatterns.
FaultDriver ==
    [rates |-> {modelSampleRate}, chans |-> {1}, bufs |-> {1}, blocks |-> {1, MaxBlock},
     phases |-> {0}, mixes |-> {MixDen},
     patterns |-> AudioPatterns, garbage |-> {0},
     enables |-> {TRUE}, paths |-> {UserFile}, clears |-> {},
     prefs |-> {}, allows |-> {}, loads |-> {}, resets |-> {TRUE}]

\* A host that streams on up to MaxChannels channels, with buffers of as many
\* or fewer channels.
StereoDriver ==
    [rates |-> {modelSampleRate}, chans |-> 1..MaxChannels, bufs |-> 1..MaxChannels,
     blocks |-> {MaxBlock},
     phases |-> {0}, mixes |-> {1},
     patterns |-> {<<"full", "throw">>}, garbage |-> {0},
     enables |-> {TRUE}, paths |-> {UserFile}, clears |-> {},
     prefs |-> {}, allows |-> {}, loads |-> {}, resets |-> {}]

AudioDrivers == {MixDriver, FaultDriver, StereoDriver}

\* Machines for the load path: builds, files present and the providers that
\* work, plus one machine on which the user's file loads on the CPU only
\* while the CUDA-specific candidate loads on CUDA, and one without any model
\* file.
LoadMachines ==
    { [build |-> b, searchDirs |-> ExeDirs, existing |-> ex,
       creatable |-> {<<f, p>> : f \in okFiles, p \in good}] :
         b \in {{}, BuildFlags},
         ex \in {{UserFile}, {UserFile, CudaCandidate, BareCandidate}},
         okFiles \in {ModelFiles, ModelFiles \ {UserFile}},
         good \in {{}, {"cpu"}, {"cuda", "cpu"}, {"qnn", "cpu"}, {"dml", "rocm"}} }
    \cup
    { [build |-> {"cuda"}, searchDirs |-> ExeDirs,
       existing |-> {UserFile, CudaCandidate},
       creatable |-> {<<UserFile, "cpu">>, <<CudaCandidate, "cuda">>}],
      [build |-> BuildFlags, searchDirs |-> ExeDirs, existing |-> {},
       creatable |-> {<<f, "cpu">> : f \in ModelFiles}] }

\* The host of the load path: every provider preference, one block shape.
LoadDriver ==
    [rates |-> {modelSampleRate}, chans |-> {1}, bufs |-> {1}, blocks |-> {modelFrameSize},
     phases |-> {0}, mixes |-> {MixDen},
     patterns |-> {<<"full", "throw">>}, garbage |-> {0},
     enables |-> {TRUE}, paths |-> {UserFile}, clears |-> {TRUE},
     prefs |-> Providers, allows |-> BOOLEAN, loads |-> {TRUE}, resets |-> {TRUE}]

\* A host that streams on one channel at half, once and twice the model's
\* sample rate; a read outside an array yields 0 or 1.
RateDriver ==
    [rates |-> {modelSampleRate \div 2, modelSampleRate, 2 * modelSampleRate},
     chans |-> {1}, bufs |-> {1}, blocks |-> 1..MaxBlock,
     phases |-> {0}, mixes |-> {MixDen},
     patterns |-> {<<"full", "full">>}, garbage |-> {0, 1},
     enables |-> {TRUE}, paths |-> {UserFile}, clears |-> {TRUE},
     prefs |-> {"autoSelect"}, allows |-> {TRUE}, loads |-> {TRUE}, resets |-> {TRUE}]

\* The same host with blocks that convert to at most FifoFrames - 1 model
\* frames at each of its rates.
SmallBlockDriver ==
    [RateDriver EXCEPT !.rates = {modelSampleRate, 2 * modelSampleRate},
                       !.blocks = 1..((FifoFrames - 1) * modelFrameSize)]

RateDrivers == {RateDriver, SmallBlockDriver}

\* Hosts that, once audio flows, do nothing but call processBlock with the
\* one block size n at the model's rate, at any mix.
StreamDriver(n) ==
    [rates |-> {modelSampleRate}, chans |-> {1}, bufs |-> {1}, blocks |-> {n},
     phases |-> {0, 1}, mixes |-> {0, MixDen},
     patterns |-> {<<"full", "throw">>}, garbage |-> {0},
     enables |-> {TRUE}, paths |-> {UserFile}, clears |-> {TRUE},
     prefs |-> {"autoSelect"}, allows |-> {TRUE}, loads |-> {TRUE}, resets |-> {TRUE}]

StreamDrivers == {StreamDriver(n) : n \in 1..MaxBlock}

\* ------------------------------------------------- the lone RingBuffer
\* A RingBuffer driven directly, with the history of what it was given:
\*   arrived   every sample pushed since the last resize/clear, in order
\*   taken     every sample pop returned since then, in order
\*   over      whether some push since then exceeded the free space
\*   before    the samples held before the last call, oldest first
\*   count, fill, dest0, dest, ret   the last call's arguments and results
NoRingObs ==
    [op |-> "none", arrived |-> <<>>, taken |-> <<>>, over |-> FALSE, before |-> <<>>,
     count |-> 0, fill |-> FALSE, dest0 |-> <<>>, dest |-> <<>>, ret |-> 0]

RingIdle ==
    /\ ring = NewRingBuffer
    /\ ringObs = NoRingObs

\* The next `count` samples of the arrival stream after n samples: distinct
\* and nonzero.
RingData(n, count) == [i \in 1..count |-> n + i]

\* A destination array of n elements with a recognisable previous content.
RingDest(n) == [i \in 1..n |-> -1]

\* resize (newCapacity)
RingResize(newCapacity) ==
    /\ ring' = RB_resize(newCapacity)
    /\ ringObs' = [NoRingObs EXCEPT !.op = "resize", !.before = RB_contents(ring)]
    /\ UNCHANGED <<denoiser, names, shapes, race>>

\* clear()
RingClear ==
    /\ ring' = RB_clear(ring)
    /\ ringObs' = [NoRingObs EXCEPT !.op = "clear", !.before = RB_contents(ring)]
    /\ UNCHANGED <<denoiser, names, shapes, race>>

\* push (data, count) with the next count samples of the stream
RingPush(count) ==
    /\ Len(ringObs.arrived) + count <= MaxStream
    /\ ring' = RB_push(ring, RingData(Len(ringObs.arrived), count), count, 0)
    /\ ringObs' = [NoRingObs EXCEPT
                      !.op = "push",
                      !.arrived = ringObs.arrived \o RingData(Len(ringObs.arrived), count),
                      !.taken = ringObs.taken,
                      !.over = ringObs.over
                               \/ count > ring.capacity - ring.availableSamples,
                      !.before = RB_contents(ring),
                      !.count = count]
    /\ UNCHANGED <<denoiser, names, shapes, race>>

\* pop (dest, count, fillWithZeros), whose result is r
RingPopped(count, fillWithZeros, r) ==
    /\ ring' = r.rb
    /\ ringObs' = [NoRingObs EXCEPT
                      !.op = "pop",
                      !.arrived = ringObs.arrived,
                      !.taken = ringObs.taken \o SubSeq(r.dest, 1, r.ret),
                      !.over = ringObs.over,
                      !.before = RB_contents(ring),
                      !.count = count, !.fill = fillWithZeros,
                      !.dest0 = RingDest(count), !.dest = r.dest, !.ret = r.ret]
    /\ UNCHANGED <<denoiser, names, shapes, race>>

RingPop(count, fillWithZeros) ==
    RingPopped(count, fillWithZeros, RB_pop(ring, RingDest(count), count, fillWithZeros))

\* ------------------------------------------------------- specifications
\* -------------------------------------------------- names of the backends
\* A juce::String is a sequence of characters.
Whitespace == {" ", "\t"}
UpperCase == <<"A", "B", "C", "D", "E", "F", "G", "H", "I", "J", "K", "L", "M",
               "N", "O", "P", "Q", "R", "S", "T", "U", "V", "W", "X", "Y", "Z">>
LowerCase == <<"a", "b", "c", "d", "e", "f", "g", "h", "i", "j", "k", "l", "m",
               "n", "o", "p", "q", "r", "s", "t", "u", "v", "w", "x", "y", "z">>

\* juce::String::toLowerCase
toLowerCase(str) ==
    [i \in 1..Len(str) |->
        IF \E k \in 1..Len(UpperCase) : UpperCase[k] = str[i]
        THEN LowerCase[CHOOSE k \in 1..Len(UpperCase) : UpperCase[k] = str[i]]
        ELSE str[i]]

\* juce::String::trim: whitespace removed at both ends.
RECURSIVE trimStart(_)
trimStart(str) ==
    IF str # <<>> /\ Head(str) \in Whitespace THEN trimStart(Tail(str)) ELSE str

RECURSIVE trimEnd(_)
trimEnd(str) ==
    IF str # <<>> /\ str[Len(str)] \in Whitespace
    THEN trimEnd(SubSeq(str, 1, Len(str) - 1)) ELSE str

trim(str) == trimEnd(trimStart(str))

\* providerToString (provider); runtime is ENABLE_ONNX_RUNTIME.
providerToString(runtime, provider) ==
    IF ~runtime THEN <<"D", "i", "s", "a", "b", "l", "e", "d">>
    ELSE CASE provider = "autoSelect" -> <<"A", "u", "t", "o">>
           [] provider = "cpu"        -> <<"C", "P", "U">>
           [] provider = "dml"        -> <<"D", "M", "L">>
           [] provider = "qnn"        -> <<"Q", "N", "N">>
           [] provider = "cuda"       -> <<"C", "U", "D", "A">>
           [] provider = "rocm"       -> <<"R", "O", "C", "M">>
           [] provider = "coreml"     -> <<"C", "o", "r", "e", "M", "L">>
           [] OTHER                   -> <<"A", "u", "t", "o">>

\* providerFromString (name)
providerFromString(runtime, name) ==
    IF ~runtime THEN "cpu"
    ELSE LET normalized == toLowerCase(trim(name))
         IN  IF normalized = <<"c", "p", "u">> THEN "cpu"
             ELSE IF \/ normalized = <<"d", "m", "l">>
                     \/ normalized = <<"d", "i", "r", "e", "c", "t", "m", "l">> THEN "dml"
             ELSE IF \/ normalized = <<"q", "n", "n">>
                     \/ normalized = <<"n", "p", "u">> THEN "qnn"
             ELSE IF normalized = <<"c", "u", "d", "a">> THEN "cuda"
             ELSE IF normalized = <<"r", "o", "c", "m">> THEN "rocm"
             ELSE IF normalized = <<"c", "o", "r", "e", "m", "l">> THEN "coreml"
             ELSE "autoSelect"

\* The identifiers of enum class Provider.
ProviderIds == {"autoSelect", "cpu", "dml", "qnn", "cuda", "rocm", "coreml"}

\* The strings the conversions are given: every canonical name, the aliases,
\* the name of the build without the runtime, an unknown word, a word with a
\* blank inside and the empty string; each as written and in lower case,
\* bare and with whitespace before, after and around it.
NameWords ==
    {providerToString(TRUE, p) : p \in ProviderIds}
        \union {<<"D", "i", "r", "e", "c", "t", "M", "L">>, <<"N", "P", "U">>,
                <<"A", "U", "T", "O">>, <<"C", "O", "R", "E", "M", "L">>,
                providerToString(FALSE, "cpu"), <<"G", "p", "u">>,
                <<"C", " ", "P", "U">>, <<>>}

NameStrings ==
    {pre \o w \o post :
        w \in UNION {{x, toLowerCase(x)} : x \in NameWords},
        pre \in {<<>>, <<" ">>}, post \in {<<>>, <<"\t">>}}

NoNames(runtime) ==
    [runtime |-> runtime, op |-> "none", id |-> "autoSelect", given |-> <<>>,
     text |-> <<>>, back |-> "autoSelect", again |-> <<>>]

NamesIdle(runtime) == names = NoNames(runtime)

\* An identifier is written out and read back, as the settings page does
\* when it saves and reloads the preferred backend.
NameSaved(p) ==
    /\ names' = [NoNames(names.runtime) EXCEPT
                    !.op = "save", !.id = p,
                    !.text = providerToString(names.runtime, p),
                    !.back = providerFromString(names.runtime,
                                                providerToString(names.runtime, p))]
    /\ UNCHANGED <<denoiser, ring, ringObs, shapes, race>>

\* A stored string is read, written out, read back and written out again.
NameRead(str) ==
    /\ names' = [NoNames(names.runtime) EXCEPT
                    !.op = "read", !.given = str,
                    !.id = providerFromString(names.runtime, str),
                    !.text = providerToString(names.runtime,
                                              providerFromString(names.runtime, str)),
                    !.back = providerFromString(names.runtime,
                                 providerToString(names.runtime,
                                     providerFromString(names.runtime, str))),
                    !.again = providerToString(names.runtime,
                                 providerFromString(names.runtime,
                                     providerToString(names.runtime,
                                         providerFromString(names.runtime, str))))]
    /\ UNCHANGED <<denoiser, ring, ringObs, shapes, race>>

\* ------------------------------------------------ the model's input shape
\* The product of the dimensions of a shape.
RECURSIVE ShapeProduct(_)
ShapeProduct(shape) ==
    IF shape = <<>> THEN 1 ELSE Head(shape) * ShapeProduct(Tail(shape))

\* for (auto& dim : shape) if (dim < 0) dim = frameSize;
FillWildcards(shape, frameSize) ==
    [i \in 1..Len(shape) |-> IF shape[i] < 0 THEN frameSize ELSE shape[i]]

\* (a 2-D or 3-D template keeps its leading dimensions)
resolveInputShapeKeepLeading(modelInputShape, frameSize) ==
    IF modelInputShape = <<>> THEN <<1, frameSize>>
    ELSE LET shape == FillWildcards(modelInputShape, frameSize)
         IN  IF Len(shape) <= 3 THEN [shape EXCEPT ![Len(shape)] = frameSize]
             ELSE shape

\* resolveInputShape (frameSize) on the member modelInputShape
resolveInputShape(modelInputShape, frameSize) ==
    IF modelInputShape = <<>> THEN <<1, frameSize>>
    ELSE LET shape == FillWildcards(modelInputShape, frameSize)
         IN  IF Len(shape) = 1 THEN [shape EXCEPT ![1] = frameSize]
             ELSE IF Len(shape) = 2 THEN [shape EXCEPT ![1] = 1, ![2] = frameSize]
             ELSE IF Len(shape) = 3
                  THEN [shape EXCEPT ![1] = 1, ![2] = 1, ![3] = frameSize]
             ELSE shape

\* The template shapes a model may declare: up to MaxRank dimensions, each a
\* wildcard (negative), zero or a size up to MaxDim.
ShapeDims == (-2)..MaxDim
ShapeTemplates == UNION {[1..rank -> ShapeDims] : rank \in 0..MaxRank}

NoShapes == [op |-> "none", template |-> <<>>, frameSize |-> 1, resolved |-> <<>>]
ShapesIdle == shapes = NoShapes

\* A model with the given template is loaded and a frame of frameSize
\* samples is about to be inferred.
ShapeGiven ==
    /\ shapes \in {[NoShapes EXCEPT !.op = "given", !.template = t, !.frameSize = f] :
                      t \in ShapeTemplates, f \in 1..MaxShapeFrame}

ResolveInputShape ==
    /\ shapes.op = "given"
    /\ shapes' = [shapes EXCEPT !.op = "resolved",
                                !.resolved = resolveInputShape(shapes.template,
                                                               shapes.frameSize)]
    /\ UNCHANGED <<denoiser, ring, ringObs, names, race>>

\* ------------------------------------------- two threads on one session
\* The members session, inputName, outputName, modelInputShape and
\* activeProvider are plain fields: no lock or atomic guards them.  The audio
\* thread runs processBlock, the message thread runs applyDenoiserSettings,
\* and each statement below is one step of its thread.

\* How often the user applies the settings while audio is running.
MaxApplies == 2
\* The most frames one callback infers.
FramesPerCallback == 2

\* pc: where the audio thread is; msg: how many calls of
\* applyDenoiserSettings the message thread has made; ptr: session is not
\* nullptr; described: the names, shape and backend belong to that session.
NoRace == [pc |-> "idle", msg |-> 0, applies |-> 0, frame |-> 0,
           ptr |-> FALSE, described |-> FALSE]
RaceIdle == race = NoRace

\* What a step of the audio thread leaves alone.
RaceStep(r) ==
    /\ race' = r
    /\ UNCHANGED <<denoiser, ring, ringObs, names, shapes>>

\* What a use of a session that is gone may do: the process dies, or the
\* thread goes on as if nothing had happened.
DanglingOutcomes(next) == {"crashed", next}

\* processBlock up to loadDefaultModelIfNeeded's test of session
AudioProcessBlock ==
    /\ race.pc = "idle"
    /\ \E n \in 1..FramesPerCallback :
          RaceStep([race EXCEPT !.frame = n,
                                !.pc = IF race.ptr THEN "frame" ELSE "reset"])

\* tryCreateSessionForProvider: session.reset()
TryCreateSessionReset ==
    /\ race.pc = "reset"
    /\ RaceStep([race EXCEPT !.ptr = FALSE, !.described = FALSE, !.pc = "create"])

\* tryCreateSessionForProvider: session = std::make_unique<Ort::Session> (...)
SessionCreated ==
    /\ race.pc = "create"
    /\ RaceStep([race EXCEPT !.ptr = TRUE, !.described = FALSE, !.pc = "describe"])

\* tryCreateSessionForProvider: inputName, outputName, modelInputShape and
\* activeProvider are read from *session
SessionDescribed ==
    /\ race.pc = "describe"
    /\ IF race.ptr
       THEN RaceStep([race EXCEPT !.described = TRUE, !.pc = "frame"])
       ELSE \E o \in DanglingOutcomes("idle") : RaceStep([race EXCEPT !.pc = o])

\* runModel: if (session == nullptr) return false;
RunModelCheck ==
    /\ race.pc = "frame"
    /\ IF race.ptr
       THEN RaceStep([race EXCEPT !.pc = "checked"])
       ELSE RaceStep([race EXCEPT !.frame = race.frame - 1,
                                  !.pc = IF race.frame > 1 THEN "frame" ELSE "idle"])

\* runModel: session->Run (...) is entered
RunModelRun ==
    /\ race.pc = "checked"
    /\ RaceStep([race EXCEPT !.pc = "running"])

\* runModel: session->Run (...) returns
RunModelDone ==
    /\ race.pc = "running"
    /\ \E o \in IF race.ptr THEN {IF race.frame > 1 THEN "frame" ELSE "idle"}
                ELSE DanglingOutcomes(IF race.frame > 1 THEN "frame" ELSE "idle") :
          RaceStep([race EXCEPT !.frame = IF o = "crashed" THEN race.frame
                                          ELSE race.frame - 1,
                                !.pc = o])

\* applyDenoiserSettings: setPreferredProvider, which ends in session.reset()
MsgSetPreferredProvider ==
    /\ race.pc # "crashed"
    /\ race.msg = 0
    /\ race.applies < MaxApplies
    /\ RaceStep([race EXCEPT !.ptr = FALSE, !.described = FALSE, !.msg = 1])

\* applyDenoiserSettings: setAllowFallback, setDmlDeviceId, setQnnBackendPath
MsgSetOptions ==
    /\ race.pc # "crashed"
    /\ race.msg = 1
    /\ RaceStep([race EXCEPT !.msg = 2])

\* applyDenoiserSettings: setModelPath or clearModelPath, which end in
\* session.reset()
MsgSetModelPath ==
    /\ race.pc # "crashed"
    /\ race.msg = 2
    /\ RaceStep([race EXCEPT !.ptr = FALSE, !.described = FALSE, !.msg = 0,
                             !.applies = race.applies + 1])


Init ==
    /\ env = CpuMachine
    /\ drv \in AudioDrivers
    /\ Constructed
    /\ RingIdle
    /\ NamesIdle(TRUE)
    /\ ShapesIdle
    /\ RaceIdle

InitLoad ==
    /\ env \in LoadMachines
    /\ drv = LoadDriver
    /\ Constructed
    /\ RingIdle
    /\ NamesIdle(TRUE)
    /\ ShapesIdle
    /\ RaceIdle

InitRing ==
    /\ env = CpuMachine
    /\ drv = MixDriver
    /\ Constructed
    /\ RingIdle
    /\ NamesIdle(TRUE)
    /\ ShapesIdle
    /\ RaceIdle

NextRing ==
    \/ \E c \in 0..RingCap : RingResize(c)
    \/ RingClear
    \/ \E n \in 0..(RingCap + 1) : RingPush(n)
    \/ \E n \in 0..(RingCap + 1), z \in BOOLEAN : RingPop(n, z)

Next ==
    \/ \E rate \in drv.rates, nch \in drv.chans : Prepare(rate, nch, MaxBlock)
    \/ \E x \in drv.resets : Reset
    \/ \E b \in drv.enables : SetEnabled(b)
    \/ \E f \in drv.paths : SetModelPath(f)
    \/ \E x \in drv.clears : ClearModelPath
    \/ \E p \in drv.prefs : SetPreferredProvider(p)
    \/ \E b \in drv.allows : SetAllowFallback(b)
    \/ \E x \in drv.loads : LoadDefaultModelIfNeeded
    \/ \E nch \in drv.bufs, n \in drv.blocks, ph \in drv.phases, m \in drv.mixes,
          o \in drv.patterns, g \in drv.garbage :
          ProcessBlock(HostBuffer(ph, nch, n), n, m, o, g)

\* The audio path on one machine.
Spec == Init /\ [][Next]_vars

\* The load path on every machine of LoadMachines.
SpecLoad == InitLoad /\ [][Next]_vars

\* The audio path at host rates below, at and above the model's rate.
InitRate ==
    /\ env = CpuMachine
    /\ drv \in RateDrivers
    /\ Constructed
    /\ RingIdle
    /\ NamesIdle(TRUE)
    /\ ShapesIdle
    /\ RaceIdle

SpecRate == InitRate /\ [][Next]_vars

\* A stream: the host configures the denoiser in any way until a callback
\* buffers audio, and from then on the audio callback alone runs, again and
\* again.
InitStream ==
    /\ env = CpuMachine
    /\ drv \in StreamDrivers
    /\ Constructed
    /\ RingIdle
    /\ NamesIdle(TRUE)
    /\ ShapesIdle
    /\ RaceIdle

Streaming ==
    \E c \in 1..Len(channels) :
        Started(channels[c].inputFifo) \/ Started(channels[c].outputFifo)

AudioCallback ==
    \E nch \in drv.bufs, n \in drv.blocks, ph \in drv.phases, m \in drv.mixes,
       o \in drv.patterns, g \in drv.garbage :
       ProcessBlock(HostBuffer(ph, nch, n), n, m, o, g)

NextStream ==
    \/ ~Streaming /\ Next
    \/ Streaming /\ AudioCallback

SpecStream == InitStream /\ [][NextStream]_vars /\ WF_vars(AudioCallback)

\* The RingBuffer on its own, under every call sequence.
SpecRing == InitRing /\ [][NextRing]_vars

\* resolveInputShape on every template and frame length.
InitShape ==
    /\ env = CpuMachine
    /\ drv = MixDriver
    /\ Constructed
    /\ RingIdle
    /\ NamesIdle(TRUE)
    /\ ShapeGiven
    /\ RaceIdle

NextShape == ResolveInputShape

SpecShape == InitShape /\ [][NextShape]_vars

\* The name conversions in both builds.
InitNames ==
    /\ env = CpuMachine
    /\ drv = MixDriver
    /\ Constructed
    /\ RingIdle
    /\ \E runtime \in BOOLEAN : NamesIdle(runtime)
    /\ ShapesIdle
    /\ RaceIdle

NextNames ==
    \/ \E p \in ProviderIds : NameSaved(p)
    \/ \E str \in NameStrings : NameRead(str)

SpecNames == InitNames /\ [][NextNames]_vars

\* The audio thread in processBlock and the message thread in
\* applyDenoiserSettings, in every interleaving of their statements.
InitRace ==
    /\ env = CpuMachine
    /\ drv = MixDriver
    /\ Constructed
    /\ RingIdle
    /\ NamesIdle(TRUE)
    /\ ShapesIdle
    /\ RaceIdle

NextRace ==
    \/ AudioProcessBlock
    \/ TryCreateSessionReset
    \/ SessionCreated
    \/ SessionDescribed
    \/ RunModelCheck
    \/ RunModelRun
    \/ RunModelDone
    \/ MsgSetPreferredProvider
    \/ MsgSetOptions
    \/ MsgSetModelPath

SpecRace == InitRace /\ [][NextRace]_vars

\* ------------------------------------------------------------ properties
\* The calls that run loadDefaultModelIfNeeded.
LoadOps == {"load", "prepare", "processBlock"}

\* The fallback order of the current configuration.
CurrentOrder == getProviderFallbackOrder(preferredProvider, allowFallback)

\* Whether provider p can produce a session for file f on this machine.
Works(p, f) ==
    /\ isProviderUsable(p, env.build)
    /\ tryCreateSessionForProvider(LoadFields, f, p, env).ok

\* The fixed priority list without provider x.
AutoOrderWithout(x) ==
    LET keep(y) == y # x
    IN  SelectSeq(AutoOrder, keep)

\* How many full frames a channel that held avail0 samples has after `pushed`
\* more samples were pushed.
FullFrames(avail0, pushed) ==
    Min(modelFrameSize * FifoFrames, avail0 + pushed) \div modelFrameSize

\* C1: whenever isReady() is false when processBlock is called, the call
\* leaves every sample of every channel of the buffer equal to its input, for
\* every mix.
C1_PassthroughWithoutSession ==
    (obs.op = "processBlock" /\ ~obs.ready0) => obs.out = obs.in

\* C2: a processBlock call with mix = 0 leaves the buffer identical to its
\* input, whether or not a session is loaded and whatever inference would do.
C2_DryBypass ==
    (obs.op = "processBlock" /\ obs.mixN = 0) => obs.out = obs.in

C2_Witness ==
    /\ obs.op = "processBlock" /\ obs.mixN = 0
    /\ enabled /\ session.live /\ obs.ready0
    /\ Len(channels) >= 1 /\ Len(obs.in) >= 1
    /\ Len(obs.in[1]) >= modelFrameSize

\* C3: when the session is ready and the mix is m (clamped to [0, 1]), every
\* delivered sample is in * (1 - m) + wet * m, where in is the sample the host
\* passed in and wet the pipeline's output for it; with m = 1 it is wet.
C3_DryWetMix ==
    (obs.op = "processBlock" /\ obs.loadOk) =>
        \A c \in 1..Len(obs.calls) : \A i \in 1..Len(obs.in[c]) :
            obs.out[c][i] = (obs.in[c][i] * (MixDen - ClampMix(obs.mixN))
                             + obs.calls[c].wet[i] * ClampMix(obs.mixN)) \div MixDen

\* C4: a frame whose inference fails (exception or missing output) puts its
\* modelFrameSize original input samples, unchanged and in order, into the
\* output buffer: neither zeros nor model output.
C4_FailedFramePassesInput ==
    obs.op = "processBlock" =>
        \A c \in 1..Len(obs.calls) : \A f \in 1..Len(obs.calls[c].frames) :
            ~obs.calls[c].frames[f].ok =>
                /\ obs.calls[c].frames[f].grew = modelFrameSize
                /\ obs.calls[c].frames[f].tail = obs.calls[c].frames[f].frame

C4_Witness ==
    /\ obs.op = "processBlock"
    /\ \E c \in 1..Len(obs.calls) : \E f \in 1..Len(obs.calls[c].frames) :
          /\ obs.calls[c].frames[f].outcome \in {"throw", "empty"}
          /\ ~obs.calls[c].frames[f].ok
          /\ \A i \in 1..modelFrameSize : obs.calls[c].frames[f].frame[i] > 0
          /\ f > 1 /\ obs.calls[c].frames[f - 1].ok

\* C5: a processBlock in which a frame's inference fails leaves the session
\* alive and the session and the active backend as they were; and once a
\* frame has failed, inference is still attempted on every full frame that
\* follows, in the same call and in later calls.
C5_FailureKeepsSession ==
    [][ (obs'.op = "processBlock" /\ obs'.loadOk) =>
          /\ AnyFrameFailed(obs'.calls) =>
                /\ session'.live
                /\ session.live => (session' = session /\ activeProvider' = activeProvider)
          /\ ((inferFailed /\ session.live) \/ AnyFrameFailed(obs'.calls)) =>
                \A c \in 1..Len(obs'.calls) :
                    Len(obs'.calls[c].frames)
                        = FullFrames(channels[c].inputFifo.availableSamples,
                                     obs'.calls[c].pushed) ]_vars

C5_Witness ==
    /\ obs.op = "processBlock" /\ obs.ready0 /\ obs.failed0
    /\ session.live /\ activeProvider = obs.active0
    /\ \E c \in 1..Len(obs.calls) : \E f \in 1..Len(obs.calls[c].frames) :
          obs.calls[c].frames[f].ok
    /\ \E c \in 1..Len(obs.calls) :
          /\ Len(obs.calls[c].frames) >= 2
          /\ ~obs.calls[c].frames[1].ok

\* C6 (as stated): with allowFallback = false the fallback order is the
\* one-element list of the preferred backend, for every preferred backend.
C6_SingleBackendForEveryPreference ==
    ~allowFallback => CurrentOrder = <<preferredProvider>>

\* C6 (amended): with allowFallback = false and a specific preferred backend X
\* the order is <<X>>, a load probes no backend but X and succeeds only on X;
\* with the preference Auto the order is the fixed priority list.
C6_SingleBackendWhenSpecific ==
    ~allowFallback =>
        IF preferredProvider = "autoSelect" THEN CurrentOrder = AutoOrder
        ELSE /\ CurrentOrder = <<preferredProvider>>
             /\ (obs.op \in LoadOps /\ ~obs.ready0) =>
                   /\ \A k \in 1..Len(obs.probes) :
                         obs.probes[k].provider = preferredProvider
                   /\ session.live => activeProvider = preferredProvider
                   /\ session.live => Works(preferredProvider, session.file)

C6_Witness ==
    /\ ~allowFallback /\ preferredProvider = "cuda"
    /\ obs.op = "load" /\ ~obs.ready0 /\ ~obs.loadOk
    /\ Len(obs.probes) >= 1
    /\ Works("cpu", obs.probes[1].file)

\* C7: with the preference Auto and fallback allowed, the order holds every
\* concrete backend exactly once: QNN first, then DirectML, then CUDA and ROCm,
\* and CPU last.
C7_AutoOrder ==
    (preferredProvider = "autoSelect" /\ allowFallback) =>
        /\ Len(CurrentOrder) = Cardinality(Providers \ {"autoSelect"})
        /\ {CurrentOrder[i] : i \in 1..Len(CurrentOrder)} = Providers \ {"autoSelect"}
        /\ CurrentOrder[1] = "qnn"
        /\ CurrentOrder[2] = "dml"
        /\ {CurrentOrder[3], CurrentOrder[4]} = {"cuda", "rocm"}
        /\ CurrentOrder[Len(CurrentOrder)] = "cpu"

C7_Witness ==
    /\ preferredProvider = "autoSelect" /\ allowFallback
    /\ obs.op = "load" /\ ~obs.ready0 /\ obs.loadOk
    /\ Len(obs.probes) >= 2
    /\ obs.probes[1].provider = "qnn"
    /\ activeProvider = "cpu"

\* C8: for every preference and fallback flag the order has no duplicate and
\* never holds Auto; with a specific preferred backend X and fallback allowed
\* X is first and the rest is the fixed order QNN, DirectML, CUDA, ROCm,
\* CoreML, CPU without X.
C8_OrderWellFormed ==
    /\ \A i, j \in 1..Len(CurrentOrder) : CurrentOrder[i] = CurrentOrder[j] => i = j
    /\ \A i \in 1..Len(CurrentOrder) : CurrentOrder[i] # "autoSelect"
    /\ (preferredProvider # "autoSelect" /\ allowFallback) =>
          /\ CurrentOrder[1] = preferredProvider
          /\ Tail(CurrentOrder) = AutoOrderWithout(preferredProvider)
          /\ AutoOrder = <<"qnn", "dml", "cuda", "rocm", "coreml", "cpu">>

C8_Witness ==
    /\ preferredProvider = "cuda" /\ allowFallback
    /\ obs.op = "load" /\ ~obs.ready0 /\ obs.loadOk
    /\ Len(obs.probes) >= 2
    /\ obs.probes[1].provider = "cuda"
    /\ activeProvider = "cpu"

\* C9: when a load succeeds, the active backend is the first backend of the
\* current fallback order that can produce a session for the loaded file; no
\* backend whose session creation for that file failed is reported as active.
C9_FirstWorkingBackendWins ==
    [][ (~session.live /\ session'.live) =>
          /\ session'.provider = activeProvider'
          /\ \E i \in 1..Len(CurrentOrder) :
                /\ CurrentOrder[i] = activeProvider'
                /\ Works(CurrentOrder[i], session'.file)
                /\ \A j \in 1..(i - 1) : ~Works(CurrentOrder[j], session'.file)
          /\ \A k \in 1..Len(obs'.probes) :
                (~obs'.probes[k].ok /\ obs'.probes[k].file = session'.file)
                    => obs'.probes[k].provider # activeProvider' ]_vars

C9_Witness ==
    /\ obs.op \in LoadOps /\ ~obs.ready0 /\ obs.loadOk /\ session.live
    /\ Len(obs.probes) >= 2
    /\ ~obs.probes[1].ok /\ obs.probes[1].file = session.file
    /\ activeProvider # "cpu"
    /\ Works("cpu", session.file)

\* C10: while a session is loaded no backend is probed, by processBlock, by
\* prepare or by loadDefaultModelIfNeeded; the session stays the same one until
\* a configuration call destroys it.
C10_NoProbeWhileLoaded ==
    [][ session.live =>
          /\ obs'.probes = <<>>
          /\ \/ (session' = session /\ activeProvider' = activeProvider)
             \/ (obs'.op = "config" /\ ~session'.live) ]_vars

C10_Witness ==
    /\ obs.op = "processBlock" /\ obs.ready0 /\ obs.loadOk /\ session.live
    /\ obs.probes = <<>>
    /\ Len(obs.calls) >= 1 /\ Len(obs.calls[1].frames) >= 1
    /\ activeProvider # CurrentOrder[1]
    /\ isProviderUsable(CurrentOrder[1], env.build)

\* Whether the last call ran loadDefaultModelIfNeeded.
LoadAttempted ==
    \/ obs.op \in {"load", "prepare"}
    \/ obs.op = "processBlock" /\ enabled /\ ~MixBypass(obs.mixN)

\* The model files a load tries, in order: the configured path when it is a
\* file, then the candidates that are files.
FilesTried ==
    LET isFile(f) == f \in env.existing
    IN  (IF modelPath \in env.existing THEN <<modelPath>> ELSE <<>>)
        \o SelectSeq(getModelCandidates(env.searchDirs, preferredProvider), isFile)

\* The providers of the current fallback order that are usable in this build.
UsableOrder ==
    LET usable(p) == isProviderUsable(p, env.build)
    IN  SelectSeq(CurrentOrder, usable)

\* The attempts of a load on which every session creation fails: every usable
\* provider of the order for every file tried.
AllProbesFailed ==
    [k \in 1..(Len(FilesTried) * Len(UsableOrder)) |->
        [file |-> FilesTried[((k - 1) \div Len(UsableOrder)) + 1],
         provider |-> UsableOrder[((k - 1) % Len(UsableOrder)) + 1],
         ok |-> FALSE]]

\* C11: when session creation fails for every backend of the order and every
\* model file tried, the load returns failure and no session exists; a load
\* that fails has tried every usable backend on every file, none skipped
\* because an earlier one failed.
C11_AllFailMeansNoSession ==
    (LoadAttempted /\ ~obs.ready0) =>
        /\ (\A k \in 1..Len(AllProbesFailed) :
               ~Works(AllProbesFailed[k].provider, AllProbesFailed[k].file))
              => (~obs.loadOk /\ ~session.live)
        /\ ~obs.loadOk => (~session.live /\ obs.probes = AllProbesFailed)

C11_Witness ==
    /\ LoadAttempted /\ ~obs.ready0 /\ ~obs.loadOk /\ ~session.live
    /\ Len(obs.probes) >= 4
    /\ obs.probes[1].file # obs.probes[Len(obs.probes)].file
    /\ obs.probes[1].provider # obs.probes[2].provider

\* C12: no processBlock call performs a session-creation attempt or a search
\* for model files: the load runs only when a session already exists (and then
\* does nothing), and no backend is probed.
C12_NoLoadInProcessBlock ==
    obs.op = "processBlock" =>
        /\ obs.probes = <<>>
        /\ LoadAttempted => obs.ready0

\* C13: every change of the model path, of the preferred backend or of the
\* fallback policy destroys the live session, so that no session built under
\* the old configuration is used afterwards.
C13_ConfigChangeDestroysSession ==
    [][ (/\ session.live
         /\ \/ modelPath' # modelPath
            \/ preferredProvider' # preferredProvider
            \/ allowFallback' # allowFallback)
        => ~session'.live ]_vars

\* C14: after any sequence of resize, clear, push and pop calls the count of
\* available samples is at least 0 and at most the capacity.
C14_AvailableWithinCapacity ==
    /\ 0 <= ring.availableSamples
    /\ ring.availableSamples <= ring.capacity
    /\ Len(RB_contents(ring)) = ring.availableSamples

C14_Witness ==
    /\ ringObs.op = "push" /\ ringObs.over
    /\ ringObs.count > ring.capacity
    /\ ring.capacity >= 2
    /\ ring.availableSamples = ring.capacity
    /\ Len(ringObs.taken) >= 1

\* C15: a push that exceeds the free space (its count may exceed the
\* capacity) leaves exactly the most recent `capacity` samples of the whole
\* arrival stream in the buffer, in arrival order; a push that fits in the
\* free space keeps what was held and adds the new samples after it.
C15_OverflowDropsOldest ==
    ringObs.op = "push" =>
        IF ringObs.count > ring.capacity - Len(ringObs.before)
        THEN RB_contents(ring) = LastN(ringObs.arrived, ring.capacity)
        ELSE RB_contents(ring) = ringObs.before \o LastN(ringObs.arrived, ringObs.count)

\* C16: a pop of n samples from a buffer that holds a < n delivers the a
\* buffered samples first and empties the buffer; with fillWithZeros the
\* remaining n - a destination samples are zero, without it only a samples
\* are returned and the destination beyond them keeps its content.
C16_ShortPop ==
    (ringObs.op = "pop" /\ Len(ringObs.before) < ringObs.count) =>
        /\ ringObs.ret = Len(ringObs.before)
        /\ SubSeq(ringObs.dest, 1, Len(ringObs.before)) = ringObs.before
        /\ ring.availableSamples = 0
        /\ RB_contents(ring) = <<>>
        /\ Len(ringObs.dest) = ringObs.count
        /\ \A i \in (Len(ringObs.before) + 1)..ringObs.count :
              ringObs.dest[i] = IF ringObs.fill THEN 0 ELSE ringObs.dest0[i]

C16_Witness ==
    /\ ringObs.op = "pop" /\ ringObs.fill
    /\ Len(ringObs.before) >= 2
    /\ ringObs.count >= Len(ringObs.before) + 2
    /\ ringObs.ret = Len(ringObs.before)
    /\ ring.readIndex # 0

\* C17: while no push exceeds the free space, the samples popped so far
\* (zero padding excluded) followed by the samples still buffered are exactly
\* the samples pushed so far, in order; the popped samples are therefore a
\* prefix of the pushed samples, also when the indices wrap around.
C17_Fifo ==
    ~ringObs.over =>
        /\ ringObs.arrived = ringObs.taken \o RB_contents(ring)
        /\ Len(ringObs.taken) <= Len(ringObs.arrived)
        /\ SubSeq(ringObs.arrived, 1, Len(ringObs.taken)) = ringObs.taken

C17_Witness ==
    /\ ~ringObs.over
    /\ ringObs.op = "pop" /\ ringObs.ret >= 2
    /\ Len(ringObs.taken) > ring.capacity
    /\ ring.availableSamples >= 1
    /\ 1 <= ring.readIndex /\ ring.readIndex < ringObs.ret

\* C18: reset() leaves every channel's input and output buffer empty and both
\* interpolators of the Rate Bridge in their initial phase, and changes
\* neither the session, isReady(), the active backend, the enabled flag, the
\* provider preferences, the model path nor any buffer capacity.
C18_ResetClearsOnlyAudioState ==
    [][ obs'.op = "reset" =>
          /\ Len(channels') = Len(channels)
          /\ \A c \in 1..Len(channels) :
                /\ channels'[c].inputFifo.availableSamples = 0
                /\ channels'[c].outputFifo.availableSamples = 0
                /\ RB_contents(channels'[c].inputFifo) = <<>>
                /\ RB_contents(channels'[c].outputFifo) = <<>>
                /\ channels'[c].resamplerIn = InterpReset(modelSampleRate)
                /\ channels'[c].resamplerOut = InterpReset(hostSampleRate)
                /\ channels'[c].inputFifo.capacity = channels[c].inputFifo.capacity
                /\ channels'[c].outputFifo.capacity = channels[c].outputFifo.capacity
                /\ Len(channels'[c].tempIn) = Len(channels[c].tempIn)
                /\ Len(channels'[c].tempOut) = Len(channels[c].tempOut)
                /\ Len(channels'[c].frameIn) = Len(channels[c].frameIn)
                /\ Len(channels'[c].frameOut) = Len(channels[c].frameOut)
          /\ session' = session
          /\ activeProvider' = activeProvider
          /\ enabled' = enabled
          /\ preferredProvider' = preferredProvider
          /\ allowFallback' = allowFallback
          /\ modelPath' = modelPath ]_vars

C18_Witness ==
    /\ obs.op = "reset"
    /\ session.live /\ enabled
    /\ Len(obs.before) >= 1
    /\ \E c \in 1..Len(obs.before) :
          /\ obs.before[c].outputFifo.availableSamples > 0
          /\ obs.before[c].inputFifo.writeIndex > 0
          /\ obs.before[c].inputFifo.buffer # channels[c].inputFifo.buffer
          /\ obs.before[c].resamplerIn # InterpReset(modelSampleRate)
          /\ obs.before[c].resamplerOut # InterpReset(hostSampleRate)
          /\ channels[c].inputFifo.availableSamples = 0
          /\ channels[c].outputFifo.availableSamples = 0

\* C19: every backend identifier survives being written as its name and read
\* back, and for every string the name of the identifier it is read as is
\* read and written back as itself.
C19_NameRoundTrip ==
    /\ names.op = "save" => names.back = names.id
    /\ names.op = "read" => (names.again = names.text /\ names.back = names.id)

\* C20: once prepare has sized the channels, a processBlock call changes the
\* size of no channel's scratch arrays (tempIn, tempOut), frame arrays or
\* buffer capacities.
C20_NoResizeInProcessBlock ==
    [][ (obs'.op = "processBlock" /\ Len(channels) > 0) =>
          /\ Len(channels') = Len(channels)
          /\ \A c \in 1..Len(channels) :
                /\ Len(channels'[c].tempIn) = Len(channels[c].tempIn)
                /\ Len(channels'[c].tempOut) = Len(channels[c].tempOut)
                /\ Len(channels'[c].frameIn) = Len(channels[c].frameIn)
                /\ Len(channels'[c].frameOut) = Len(channels[c].frameOut)
                /\ channels'[c].inputFifo.capacity = channels[c].inputFifo.capacity
                /\ channels'[c].outputFifo.capacity = channels[c].outputFifo.capacity
                /\ Len(channels'[c].inputFifo.buffer) = Len(channels[c].inputFifo.buffer)
                /\ Len(channels'[c].outputFifo.buffer) = Len(channels[c].outputFifo.buffer) ]_vars

\* The number of inferences the channels before channel c made in the last
\* callback.
RECURSIVE InferencesBefore(_)
InferencesBefore(c) ==
    IF c <= 1 THEN 0 ELSE InferencesBefore(c - 1) + Len(obs.calls[c - 1].frames)

\* processChannel on channel c alone: from that channel's state before the
\* last callback and that channel's audio, with the inference outcomes that
\* channel met.
ChannelAlone(c) ==
    processChannel(obs.before[c], obs.in[c], TRUE, Len(obs.in[c]), ClampMix(obs.mixN),
                   hostSampleRate, session, obs.outcomes, InferencesBefore(c), obs.garbage)

\* C21: after a callback that processed channels, the state and the output of
\* every processed channel are what processChannel makes of that channel's
\* own state and audio alone, whatever the other channels held and were fed;
\* channels beyond the buffer keep their state.
C21_ChannelIndependence ==
    (obs.op = "processBlock" /\ obs.calls # <<>>) =>
        /\ Len(channels) = Len(obs.before)
        /\ \A c \in 1..Len(obs.calls) :
              /\ channels[c] = ChannelAlone(c).state
              /\ obs.out[c] = ChannelAlone(c).output
        /\ \A c \in (Len(obs.calls) + 1)..Len(channels) : channels[c] = obs.before[c]
        /\ \A c \in (Len(obs.calls) + 1)..Len(obs.in) : obs.out[c] = obs.in[c]

C21_Witness ==
    /\ obs.op = "processBlock" /\ Len(obs.calls) = 2
    /\ obs.in[1] # obs.in[2]
    /\ obs.before[1] # obs.before[2]
    /\ obs.before[1].inputFifo.availableSamples > 0
    /\ channels[1] # channels[2]
    /\ obs.out[1] # obs.out[2]
    /\ \A c \in 1..2 : Len(obs.calls[c].frames) >= 1

\* A host that calls processBlock with one block size only, at the model's
\* sample rate.
SteadyHost == Cardinality(drv.blocks) = 1 /\ hostSampleRate = modelSampleRate

\* C22: with a loaded session, one block size and the model's rate, a channel
\* whose output buffer was given a frame in an earlier callback or earlier in
\* this callback has its drain of requiredModelSamples fully satisfied: the
\* drain is zero-padded only while no frame has been inferred yet.
C22_NoUnderrunAfterStartup ==
    (obs.op = "processBlock" /\ SteadyHost /\ obs.ready0 /\ session.live) =>
        \A c \in 1..Len(obs.calls) :
            (Started(obs.before[c].outputFifo) \/ Len(obs.calls[c].frames) >= 1)
                => obs.calls[c].popped = obs.calls[c].required

\* The samples channel c's input buffer was to drain in the last callback:
\* those it held before, then those pushed in this call.
InputStream(c) ==
    RB_contents(obs.before[c].inputFifo) \o SubSeq(channels[c].tempIn, 1, obs.calls[c].pushed)

\* C23: in every processChannel call inference runs exactly
\* floor((samples left in the input buffer + samples pushed) / modelFrameSize)
\* times, the j-th time on the j-th run of modelFrameSize consecutive samples
\* of the buffered stream, and the input buffer is left with the remaining
\* fewer than modelFrameSize samples.
C23_FrameDraining ==
    obs.op = "processBlock" =>
        \A c \in 1..Len(obs.calls) :
            /\ obs.calls[c].avail0 = obs.before[c].inputFifo.availableSamples
            /\ Len(obs.calls[c].frames)
                 = (obs.calls[c].avail0 + obs.calls[c].pushed) \div modelFrameSize
            /\ \A j \in 1..Len(obs.calls[c].frames) :
                  obs.calls[c].frames[j].frame
                     = SubSeq(InputStream(c), (j - 1) * modelFrameSize + 1, j * modelFrameSize)
            /\ channels[c].inputFifo.availableSamples < modelFrameSize
            /\ RB_contents(channels[c].inputFifo)
                 = SubSeq(InputStream(c), Len(obs.calls[c].frames) * modelFrameSize + 1,
                          Len(InputStream(c)))

C23_Witness ==
    /\ obs.op = "processBlock"
    /\ \E c \in 1..Len(obs.calls) :
          /\ obs.calls[c].avail0 >= 1
          /\ Len(obs.calls[c].frames) >= 2
          /\ obs.calls[c].frames[1].frame[1] = RB_contents(obs.before[c].inputFifo)[1]
          /\ \A i \in 1..modelFrameSize : obs.calls[c].frames[2].frame[i] # 0

\* C25: in every processChannel call the count pushed into the input buffer
\* is the count of model-rate samples resamplerIn wrote into tempIn, which is
\* targetSamples, and so never exceeds targetSamples.
C25_PushedIsProduced ==
    obs.op = "processBlock" =>
        \A c \in 1..Len(obs.calls) :
            /\ obs.calls[c].target = CeilDiv(Len(obs.in[c]) * modelSampleRate, hostSampleRate)
            /\ obs.calls[c].pushed = obs.calls[c].target
            /\ obs.calls[c].pushed <= Len(channels[c].tempIn)

\* Whether every block the host sends converts to at most FifoFrames - 1
\* model frames of samples, at every rate it prepares with.
SmallBlocks ==
    \A n \in drv.blocks, rate \in drv.rates :
        CeilDiv(n * modelSampleRate, rate) <= (FifoFrames - 1) * modelFrameSize

\* C24: while every block converts to at most FifoFrames - 1 model frames, no
\* push into a channel's input buffer and no push of a frame into its output
\* buffer exceeds the free space.
C24_CapacityNeverReached ==
    (obs.op = "processBlock" /\ SmallBlocks) =>
        \A c \in 1..Len(obs.calls) :
            /\ obs.calls[c].avail0 + obs.calls[c].pushed <= obs.before[c].inputFifo.capacity
            /\ \A j \in 1..Len(obs.calls[c].frames) :
                  obs.calls[c].frames[j].grew = modelFrameSize

\* C26: a call of the host that changes the sample rate, the channel count,
\* the model path or the preferred backend leaves every channel's input and
\* output buffer empty, so that nothing buffered under the previous
\* configuration is processed or delivered afterwards.
C26_ConfigChangeEmptiesBuffers ==
    [][ (/\ obs'.op \in {"config", "prepare"}
         /\ \/ hostSampleRate' # hostSampleRate
            \/ numChannels' # numChannels
            \/ modelPath' # modelPath
            \/ preferredProvider' # preferredProvider)
        => \A c \in 1..Len(channels') :
              /\ channels'[c].inputFifo.availableSamples = 0
              /\ channels'[c].outputFifo.availableSamples = 0 ]_vars

\* C27: resolveInputShape turns an empty template into [1, F], a 1-D
\* template into [F], a 2-D template into [1, F] and a 3-D template into
\* [1, 1, F]; in a template of higher rank every negative dimension becomes F
\* and every other dimension is kept; up to rank 3 the product of the
\* resolved dimensions is F.
C27_InputShapeResolution ==
    shapes.op = "resolved" =>
        /\ Len(shapes.template) = 0 => shapes.resolved = <<1, shapes.frameSize>>
        /\ Len(shapes.template) = 1 => shapes.resolved = <<shapes.frameSize>>
        /\ Len(shapes.template) = 2 => shapes.resolved = <<1, shapes.frameSize>>
        /\ Len(shapes.template) = 3 => shapes.resolved = <<1, 1, shapes.frameSize>>
        /\ Len(shapes.template) > 3 =>
              /\ Len(shapes.resolved) = Len(shapes.template)
              /\ \A i \in 1..Len(shapes.template) :
                    shapes.resolved[i] = IF shapes.template[i] < 0 THEN shapes.frameSize
                                         ELSE shapes.template[i]
        /\ Len(shapes.template) <= 3 => ShapeProduct(shapes.resolved) = shapes.frameSize

C27_Witness ==
    /\ shapes.op = "resolved"
    /\ Len(shapes.template) = 3
    /\ shapes.template[1] > 1 /\ shapes.template[2] < 0 /\ shapes.template[3] = 0
    /\ shapes.frameSize = MaxShapeFrame
    /\ shapes.resolved = <<1, 1, MaxShapeFrame>>

\* C28: at the model's sample rate, after every processBlock call the samples
\* a channel holds in its input buffer and in its output buffer together are
\* fewer than one model frame.
C28_BoundedLatency ==
    (obs.op = "processBlock" /\ hostSampleRate = modelSampleRate) =>
        \A c \in 1..Len(channels) :
            channels[c].inputFifo.availableSamples + channels[c].outputFifo.availableSamples
                < modelFrameSize

C28_Witness ==
    /\ obs.op = "processBlock" /\ hostSampleRate = modelSampleRate /\ session.live
    /\ Len(obs.calls) >= 1
    /\ Len(obs.calls[1].frames) >= 2
    /\ obs.calls[1].popped = obs.calls[1].required
    /\ obs.before[1].inputFifo.availableSamples = modelFrameSize - 1
    /\ channels[1].outputFifo.availableSamples = modelFrameSize - 1

\* C30: in a stream of callbacks of one block size at the model's rate there
\* is a callback after which no drain of an output buffer is zero-padded
\* again: eventually every drain finds requiredModelSamples buffered.
C30_StarvationEnds ==
    <>[](obs.op = "processBlock" =>
            \A c \in 1..Len(obs.calls) : obs.calls[c].popped = obs.calls[c].required)

C30_Witness ==
    /\ Streaming /\ session.live
    /\ obs.op = "processBlock" /\ Len(obs.calls) = 1
    /\ obs.calls[1].popped = obs.calls[1].required
    /\ Started(obs.before[1].outputFifo)
    /\ channels[1].inputFifo.availableSamples + channels[1].outputFifo.availableSamples >= 1

\* C29: while applyDenoiserSettings on the message thread interleaves with
\* processBlock on the audio thread, inference never runs on a session that
\* has been destroyed, and the audio thread never works with a session whose
\* names, shape and backend are not yet set.
C29_SessionLifetime ==
    /\ race.pc = "running" => race.ptr
    /\ race.pc \in {"frame", "checked", "running"} /\ race.ptr => race.described

====
